---------------------------- MODULE Spec2Model ----------------------------
(* A model of go-eml's message assembly (handleMessage), transfer decoding  *)
(* (decodeContentTransferEncoding), multipart decomposition (parseBody) and *)
(* address-list grouping (split, parseAddressList).                         *)
(*                                                                          *)
(* Byte strings are sequences of byte values.  Header names and values are  *)
(* strings; the library calls that inspect them (strings.ToLower,           *)
(* strings.Contains, mime.ParseMediaType, regexp matches) are tables over   *)
(* the finite set of strings that the inputs are drawn from.                *)
EXTENDS Integers, Sequences, FiniteSets, TLC

VARIABLES
    r,        \* handleMessage: the RawMessage argument [RawHeaders, Body]
    pc,       \* handleMessage: position in the function
    i,        \* handleMessage: index of the header loop (line 73)
    msg,      \* handleMessage: the Message being built
    errors,   \* handleMessage: the accumulated error list
    parts,    \* handleMessage: the Part list returned by parseBody
    k,        \* handleMessage: index of the part loop (line 152)
    part,     \* handleMessage: the loop variable `part` (a copy of parts[k])
    pbIn,     \* parseBody harness: the arguments [ct, body, ph]
    pbOut,    \* parseBody harness: the returned [parts, err] (and depth reached)
    pbPc,     \* parseBody harness: "call" or "done"
    alIn,     \* parseAddressList harness: result of tokenize [ok, ts]
    alOut,    \* parseAddressList harness: the returned [al, err] and the runs
    alPc      \* parseAddressList harness: "call" or "done"

vars == <<r, pc, i, msg, errors, parts, k, part, pbIn, pbOut, pbPc, alIn, alOut, alPc>>

msgVars  == <<r, pc, i, msg, errors, parts, k, part>>
bodyVars == <<pbIn, pbOut, pbPc>>
addrVars == <<alIn, alOut, alPc>>

---------------------------------------------------------------------------
(* Bounds of the model.                                                    *)

\* segments (at all depths together) of a body given to the parseBody harness
MaxNodes == 4
\* segments of a body given to handleMessage
MaxParts == 2
\* raw header fields of a message given to handleMessage
MaxHeaders == 3
\* tokens of an enumerated address-list header value
MaxTokens == 6
\* how far past the recursion cap the nested bodies of the harness go
MaxOverCap == 1

\* The nesting cap that section 4.3 of the specification asks for.  The
\* specification gives 64 as an example and the source has no cap; the model
\* takes a small one, and bodies nested up to MaxOverCap levels past it.
RecursionCap == 8

---------------------------------------------------------------------------
(* Helpers over sequences.                                                 *)

RECURSIVE Flatten(_)
Flatten(ss) == IF ss = <<>> THEN <<>> ELSE Head(ss) \o Flatten(Tail(ss))

Max2(a, b) == IF a >= b THEN a ELSE b

SeqsUpTo(S, n) == UNION { [1..m -> S] : m \in 0..n }

Range(s) == { s[j] : j \in DOMAIN s }

\* a header map (map[string][]string): a function from the names present to
\* the sequence of their values
EmptyHeader == [x \in {} |-> <<>>]

Has(h, key) == key \in DOMAIN h

\* an error value: nil, or the texts of the error, a wrapping error first
Nil == <<>>
Err(text) == <<text>>
\* fmt.Errorf(prefix + ": %v", err)
Wrap(prefix, err) == <<prefix>> \o err

---------------------------------------------------------------------------
(* Byte strings and the transfer decoders of decodeContentTransferEncoding. *)

PadChar == 61   \* '='

\* the 6-bit value of a character of the standard base64 alphabet, -1 if none
B64Val(c) ==
    IF c >= 65 /\ c <= 90 THEN c - 65
    ELSE IF c >= 97 /\ c <= 122 THEN c - 71
    ELSE IF c >= 48 /\ c <= 57 THEN c + 4
    ELSE IF c = 43 THEN 62
    ELSE IF c = 47 THEN 63
    ELSE -1

IsCRLF(c) == c = 13 \/ c = 10

RECURSIVE StripCRLF(_)
StripCRLF(s) ==
    IF s = <<>> THEN <<>>
    ELSE (IF IsCRLF(Head(s)) THEN <<>> ELSE <<Head(s)>>) \o StripCRLF(Tail(s))

B64Fail == [out |-> <<>>, ok |-> FALSE]

\* the bytes of one quantum of 4 characters, cut to n bytes
B64Bytes(v1, v2, v3, v4, n) ==
    LET val == v1 * 262144 + v2 * 4096 + v3 * 64 + v4
    IN SubSeq(<<val \div 65536, (val \div 256) % 256, val % 256>>, 1, n)

RECURSIVE B64Quanta(_)
\* encoding/base64 StdEncoding.Decode over input without CR/LF: whole quanta
\* are written until the first corrupt one; `out` is what was written by then
B64Quanta(s) ==
    LET n == Len(s) IN
    IF n = 0 THEN [out |-> <<>>, ok |-> TRUE]
    ELSE IF B64Val(s[1]) < 0 THEN B64Fail
    ELSE IF n < 2 THEN B64Fail
    ELSE IF B64Val(s[2]) < 0 THEN B64Fail
    ELSE IF n < 3 THEN B64Fail
    ELSE IF B64Val(s[3]) < 0 THEN
        IF s[3] = PadChar /\ n >= 4 /\ s[4] = PadChar
        THEN [out |-> B64Bytes(B64Val(s[1]), B64Val(s[2]), 0, 0, 1), ok |-> n = 4]
        ELSE B64Fail
    ELSE IF n < 4 THEN B64Fail
    ELSE IF B64Val(s[4]) < 0 THEN
        IF s[4] = PadChar
        THEN [out |-> B64Bytes(B64Val(s[1]), B64Val(s[2]), B64Val(s[3]), 0, 2),
              ok |-> n = 4]
        ELSE B64Fail
    ELSE LET rest == B64Quanta(SubSeq(s, 5, n))
         IN [out |-> B64Bytes(B64Val(s[1]), B64Val(s[2]), B64Val(s[3]), B64Val(s[4]), 3)
                       \o rest.out,
             ok |-> rest.ok]

\* base64.StdEncoding.DecodeString: returns dbuf[:n] and the error, that is
\* the bytes decoded before the corrupt input together with the failure
B64DecodeString(s) == B64Quanta(StripCRLF(s))

HexVal(c) ==
    IF c >= 48 /\ c <= 57 THEN c - 48
    ELSE IF c >= 65 /\ c <= 70 THEN c - 55
    ELSE IF c >= 97 /\ c <= 102 THEN c - 87
    ELSE -1

RECURSIVE QPLine(_)
\* mime/quotedprintable Reader.Read over one line: "=XX" is a byte, a "=" not
\* followed by two hex digits is a literal "=" unless it ends the line, an
\* unencoded byte outside ' '..'~' (and below 0x80) ends the output
QPLine(l) ==
    LET n == Len(l) IN
    IF n = 0 THEN <<>>
    ELSE IF l[1] = PadChar THEN
        IF n >= 3 /\ HexVal(l[2]) >= 0 /\ HexVal(l[3]) >= 0
        THEN <<HexVal(l[2]) * 16 + HexVal(l[3])>> \o QPLine(SubSeq(l, 4, n))
        ELSE IF n >= 2 THEN <<PadChar>> \o QPLine(SubSeq(l, 2, n))
        ELSE <<>>
    ELSE IF l[1] < 128 /\ (l[1] < 32 \/ l[1] > 126) THEN <<>>
    ELSE <<l[1]>> \o QPLine(SubSeq(l, 2, n))

\* io.ReadAll(quotedprintable.NewReader(..)) with the error dropped (line 269),
\* for input of one line without white space: a final "=" is a soft line break
QPReadAll(s) ==
    IF s # <<>> /\ s[Len(s)] = PadChar
    THEN QPLine(SubSeq(s, 1, Len(s) - 1))
    ELSE QPLine(s)

\* strings.ToLower over the encoding names of the inputs
ToLowerEnc(v) ==
    CASE v = "BASE64" -> "base64"
      [] v = "Quoted-Printable" -> "quoted-printable"
      [] OTHER -> v

CTEKey == "Content-Transfer-Encoding"

\* decodeContentTransferEncoding with the message and part header maps swapped
DecodeCTEMsgFirst(msgHeaders, partHeaders, toDecode) ==
    LET encoding == IF Has(msgHeaders, CTEKey) THEN ToLowerEnc(msgHeaders[CTEKey][1])
                    ELSE IF Has(partHeaders, CTEKey) THEN ToLowerEnc(partHeaders[CTEKey][1])
                    ELSE ""
        b64 == B64DecodeString(toDecode)
    IN CASE encoding = "base64" ->
                [decoded |-> b64.out,
                 err |-> IF b64.ok THEN Nil ELSE Wrap("body parser", Err("failed decode base64"))]
         [] encoding = "quoted-printable" -> [decoded |-> QPReadAll(toDecode), err |-> Nil]
         [] OTHER -> [decoded |-> toDecode, err |-> Nil]

\* decodeContentTransferEncoding (message.go 246-273)
decodeContentTransferEncoding(msgHeaders, partHeaders, toDecode) ==
    LET encoding == IF Has(partHeaders, CTEKey) THEN ToLowerEnc(partHeaders[CTEKey][1])
                    ELSE IF Has(msgHeaders, CTEKey) THEN ToLowerEnc(msgHeaders[CTEKey][1])
                    ELSE ""
        b64 == B64DecodeString(toDecode)
    IN CASE encoding = "base64" ->
                [decoded |-> b64.out,
                 err |-> IF b64.ok THEN Nil ELSE Wrap("body parser", Err("failed decode base64"))]
         [] encoding = "quoted-printable" -> [decoded |-> QPReadAll(toDecode), err |-> Nil]
         [] OTHER -> [decoded |-> toDecode, err |-> Nil]

\* UTF8(charset, data): the charset transcoder; an unrecognized charset name
\* fails, ISO-8859-1 bytes above 0x7f become two-byte UTF-8 sequences
RECURSIVE Latin1ToUTF8(_)
Latin1ToUTF8(s) ==
    IF s = <<>> THEN <<>>
    ELSE (IF Head(s) < 128 THEN <<Head(s)>>
          ELSE <<192 + (Head(s) \div 64), 128 + (Head(s) % 64)>>) \o Latin1ToUTF8(Tail(s))

UTF8(charset, data) ==
    CASE charset \in {"utf-8", "UTF-8"} -> [data |-> data, ok |-> TRUE]
      [] charset = "iso-8859-1" -> [data |-> Latin1ToUTF8(data), ok |-> TRUE]
      [] OTHER -> [data |-> <<>>, ok |-> FALSE]

---------------------------------------------------------------------------
(* Content types.  A Content-Type value is a string; the table gives what   *)
(* mime.ParseMediaType returns for each string of the inputs.               *)

CTKey == "Content-Type"
CDKey == "Content-Disposition"

MixedB   == "multipart/mixed; boundary=b"
AltC     == "multipart/alternative; boundary=c"
AltNoBnd == "multipart/alternative"
PlainU   == "text/plain; charset=utf-8"
PlainNoC == "text/plain"
PlainBad == "text/plain; charset"
HtmlL1   == "text/html; charset=iso-8859-1"
Pdf      == "application/pdf"

ContentTypes == {MixedB, AltC, AltNoBnd, PlainU, PlainNoC, PlainBad, HtmlL1, Pdf}

\* mime.ParseMediaType(ct): media type, whether ps has "boundary", ps["charset"]
ParseMediaType(ct) ==
    CASE ct = MixedB   -> [ok |-> TRUE, mt |-> "multipart/mixed", boundary |-> TRUE, charset |-> ""]
      [] ct = AltC     -> [ok |-> TRUE, mt |-> "multipart/alternative", boundary |-> TRUE, charset |-> ""]
      [] ct = AltNoBnd -> [ok |-> TRUE, mt |-> "multipart/alternative", boundary |-> FALSE, charset |-> ""]
      [] ct = PlainU   -> [ok |-> TRUE, mt |-> "text/plain", boundary |-> FALSE, charset |-> "utf-8"]
      [] ct = PlainNoC -> [ok |-> TRUE, mt |-> "text/plain", boundary |-> FALSE, charset |-> ""]
      [] ct = HtmlL1   -> [ok |-> TRUE, mt |-> "text/html", boundary |-> FALSE, charset |-> "iso-8859-1"]
      [] ct = Pdf      -> [ok |-> TRUE, mt |-> "application/pdf", boundary |-> FALSE, charset |-> ""]
      [] OTHER         -> [ok |-> FALSE, mt |-> "", boundary |-> FALSE, charset |-> ""]

\* strings.HasPrefix(t, "multipart") over media types and raw Content-Type values
HasPrefixMultipart(t) ==
    t \in {"multipart/mixed", "multipart/alternative", MixedB, AltC, AltNoBnd}

\* strings.Contains(t, "text/plain") and strings.Contains(t, "text/html")
ContainsTextPlain(t) == t \in {"text/plain", PlainU, PlainNoC, PlainBad}
ContainsTextHtml(t)  == t \in {"text/html", HtmlL1}

\* the charset of a fallback Part: the match of "(?is)charset=(.*)" in the raw
\* Content-Type value, "UTF-8" when there is none (multipart.go 87-91)
FallbackCharset(ct) ==
    CASE ct = PlainU -> "utf-8"
      [] ct = HtmlL1 -> "iso-8859-1"
      [] OTHER       -> "UTF-8"

\* how the multipart reader's NextPart ends the segments of a body
EOF        == "EOF"
NextPartEOF == "multipart: NextPart: EOF"
Malformed  == "malformed MIME header line"
ReaderEnds == {EOF, NextPartEOF, Malformed}

---------------------------------------------------------------------------
(* parseBody (multipart.go 28-106).  A body is [data, segs, end]: its raw   *)
(* bytes, the segments the multipart reader yields for it, each             *)
(* [headers, data, segs, end], and the error that ends the segments.        *)

\* lines 53-59: the headers read from "\r\n" + body, overridden by ph
MergeHeaders(mh, ph) ==
    [key \in DOMAIN mh \cup DOMAIN ph |-> IF key \in DOMAIN ph THEN ph[key] ELSE mh[key]]

\* mail.ReadMessage("\r\n" + body): the header block is empty
ReadMessageHeader(body) == EmptyHeader

Part(type, charset, data, headers) ==
    [Type |-> type, Charset |-> charset, Data |-> data, Headers |-> headers]

\* lines 75-78 with the skip left out: the segment is emitted as a Part
EmptySegmentEmitted(acc, p) == Append(acc, Part("", "UTF-8", p.data, p.headers))

\* lines 75-78: what a segment without a Content-Type header adds to the parts
EmptySegment(acc, p) == acc

\* lines 99-103: the error parseBody returns once NextPart has failed
AfterLoopErr(end) ==
    IF end = EOF THEN Nil
    ELSE IF end = NextPartEOF THEN Nil
    ELSE Err(end)

RECURSIVE parseBody(_, _, _, _)
RECURSIVE NextParts(_, _, _, _, _)

\* the loop of lines 72-97 from segment j on; acc holds the parts so far and
\* depth the deepest call of parseBody so far
NextParts(body, j, acc, level, depth) ==
    IF j > Len(body.segs)
    THEN [parts |-> acc, err |-> AfterLoopErr(body.end), depth |-> depth]
    ELSE LET p == body.segs[j] IN
         IF ~Has(p.headers, CTKey)
         THEN NextParts(body, j + 1, EmptySegment(acc, p), level, depth)
         ELSE LET sub == parseBody(p.headers[CTKey][1], p, p.headers, level + 1)
                  fallback == Part(p.headers[CTKey][1], FallbackCharset(p.headers[CTKey][1]),
                                   p.data, p.headers)
              IN NextParts(body, j + 1,
                           IF sub.err = Nil THEN acc \o sub.parts ELSE Append(acc, fallback),
                           level, Max2(depth, sub.depth))

\* parseBody(ct, body, ph), called at nesting level `level` (1 at the top)
parseBody(ct, body, ph, level) ==
    LET m == ParseMediaType(ct) IN
    IF ~m.ok
    THEN [parts |-> <<>>, err |-> Err("mime: invalid media parameter"), depth |-> level]
    ELSE IF ~m.boundary
    THEN IF HasPrefixMultipart(m.mt)
         THEN [parts |-> <<>>, err |-> Err("multipart specified without boundary"),
               depth |-> level]
         ELSE [parts |-> <<Part(m.mt, m.charset, body.data,
                                MergeHeaders(ReadMessageHeader(body), ph))>>,
               err |-> Nil, depth |-> level]
    ELSE NextParts(body, 1, <<>>, level, level)

---------------------------------------------------------------------------
(* Bodies: the segment trees the inputs are drawn from.                     *)

Seg(headers, data, segs, end) ==
    [headers |-> headers, data |-> data, segs |-> segs, end |-> end]

TextABC  == <<65, 66, 67>>          \* "ABC"
RawDelim == <<45, 45>>              \* "--", how the raw bytes of a multipart body start

H1(k1, v1) == [x \in {k1} |-> <<v1>>]
H2(k1, v1, k2, v2) == [x \in {k1, k2} |-> IF x = k1 THEN <<v1>> ELSE <<v2>>]
H3(k1, v1, k2, v2, k3, v3) ==
    [x \in {k1, k2, k3} |-> IF x = k1 THEN <<v1>> ELSE IF x = k2 THEN <<v2>> ELSE <<v3>>]

\* a segment that is a multipart body with a boundary
Container(segs, end) == Seg(H1(CTKey, MixedB), RawDelim, segs, end)

RECURSIVE SegsOfSize(_, _)
RECURSIVE ForestsOfSize(_, _)
RECURSIVE ForestsHeadedBy(_, _, _)

\* the segments made of exactly n segments (themselves included)
SegsOfSize(n, Leaves) ==
    LET inner == ForestsOfSize(n - 1, Leaves)
    IN (IF n = 1 THEN Leaves ELSE {})
           \cup { Container(f, e) : f \in inner, e \in ReaderEnds }

\* the segment sequences of exactly n segments whose first has m of them
ForestsHeadedBy(m, n, Leaves) ==
    LET heads == SegsOfSize(m, Leaves)
        tails == ForestsOfSize(n - m, Leaves)
    IN { <<t>> \o f : t \in heads, f \in tails }

\* the segment sequences made of exactly n segments
ForestsOfSize(n, Leaves) ==
    IF n = 0 THEN { <<>> }
    ELSE UNION { ForestsHeadedBy(m, n, Leaves) : m \in 1..n }

ForestsUpTo(n, Leaves) == UNION { ForestsOfSize(m, Leaves) : m \in 0..n }

\* a body nested d containers deep around one text leaf
RECURSIVE Chain(_)
Chain(d) ==
    IF d = 0 THEN Seg(H1(CTKey, PlainU), TextABC, <<>>, EOF)
    ELSE Container(<<Chain(d - 1)>>, EOF)

\* the leaves of the parseBody harness: without Content-Type, a text leaf, a
\* multipart type without boundary, an unparsable Content-Type
StructLeaves ==
    { Seg(EmptyHeader, <<88>>, <<>>, EOF),
      Seg(H1(CTKey, PlainU), TextABC, <<>>, EOF),
      Seg(H1(CTKey, AltNoBnd), <<89>>, <<>>, EOF),
      Seg(H1(CTKey, PlainBad), <<90>>, <<>>, EOF) }

\* the bodies of the parseBody harness that are made of n segments and declare
\* a Content-Type, and those nested around the recursion cap
HarnessRoots(n) == { t \in SegsOfSize(n, StructLeaves) : Has(t.headers, CTKey) }

HarnessChains == { Chain(RecursionCap + d) : d \in 0..MaxOverCap }

---------------------------------------------------------------------------
(* The parseBody harness: one call on a body drawn from HarnessRoots.       *)

IdleMsg ==
    /\ r = [RawHeaders |-> <<>>, Body |-> Seg(EmptyHeader, <<>>, <<>>, EOF)]
    /\ pc = "idle" /\ i = 0 /\ msg = <<>> /\ errors = <<>>
    /\ parts = <<>> /\ k = 0 /\ part = <<>>

IdleBody == pbIn = <<>> /\ pbOut = <<>> /\ pbPc = "idle"

IdleAddr == alIn = <<>> /\ alOut = <<>> /\ alPc = "idle"

InitBody ==
    /\ IdleMsg /\ IdleAddr
    /\ \E n \in 0..MaxNodes :
           \E t \in IF n = 0 THEN HarnessChains ELSE HarnessRoots(n) :
               pbIn = [ct |-> t.headers[CTKey][1], body |-> t, ph |-> EmptyHeader]
    /\ pbOut = <<>>
    /\ pbPc = "call"

ParseBodyCall ==
    /\ pbPc = "call"
    /\ pbOut' = parseBody(pbIn.ct, pbIn.body, pbIn.ph, 1)
    /\ pbPc' = "done"
    /\ UNCHANGED <<pbIn, msgVars, addrVars>>

NextBody == ParseBodyCall

SpecBody == InitBody /\ [][NextBody]_vars

---------------------------------------------------------------------------
(* Claims about parseBody, checked under SpecBody.                          *)

Decomposable(seg) ==
    Has(seg.headers, CTKey) /\ ParseMediaType(seg.headers[CTKey][1]).ok
        /\ ParseMediaType(seg.headers[CTKey][1]).boundary

RECURSIVE Nesting(_)
\* how many multipart levels a segment holds, itself included
Nesting(seg) ==
    IF ~Decomposable(seg) THEN 0
    ELSE IF seg.segs = <<>> THEN 1
    ELSE 1 + CHOOSE n \in { Nesting(seg.segs[j]) : j \in DOMAIN seg.segs } :
                 \A j \in DOMAIN seg.segs : Nesting(seg.segs[j]) <= n

RECURSIVE LeafSegments(_)
\* the leaf segments that declare a Content-Type, in document order
LeafSegments(segs) ==
    IF segs = <<>> THEN <<>>
    ELSE LET s == Head(segs) IN
         (IF ~Has(s.headers, CTKey) THEN <<>>
          ELSE IF Decomposable(s) THEN LeafSegments(s.segs)
          ELSE <<s>>) \o LeafSegments(Tail(segs))

RECURSIVE WithoutEmpty(_)
\* the segments with those that declare no Content-Type removed at every depth
WithoutEmpty(segs) ==
    IF segs = <<>> THEN <<>>
    ELSE LET s == Head(segs) IN
         (IF ~Has(s.headers, CTKey) THEN <<>>
          ELSE <<[s EXCEPT !.segs = WithoutEmpty(s.segs)]>>) \o WithoutEmpty(Tail(segs))

RECURSIVE HasEmptyBelow(_, _)
\* some segment at depth >= d declares no Content-Type and is followed, in its
\* body, by a segment that declares one
HasEmptyBelow(seg, d) ==
    \/ /\ d <= 1
       /\ \E a, b \in DOMAIN seg.segs :
              a < b /\ ~Has(seg.segs[a].headers, CTKey) /\ Has(seg.segs[b].headers, CTKey)
    \/ \E j \in DOMAIN seg.segs :
           Decomposable(seg.segs[j]) /\ HasEmptyBelow(seg.segs[j], d - 1)

\* C4: every Part that parseBody returns is a leaf: none has a multipart media
\* type as its Type, also when a nested segment's own decomposition failed.
C4_PartsAreLeaves ==
    pbPc = "done" =>
        \A j \in DOMAIN pbOut.parts : ~HasPrefixMultipart(pbOut.parts[j].Type)

\* C5: a successful parseBody of a multipart body returns exactly one Part per
\* leaf segment that declares a Content-Type, in depth-first document order.
C5_OnePartPerLeafInOrder ==
    (pbPc = "done" /\ pbOut.err = Nil /\ Decomposable(pbIn.body)) =>
        LET leaves == LeafSegments(pbIn.body.segs) IN
        /\ Len(pbOut.parts) = Len(leaves)
        /\ \A j \in DOMAIN leaves :
               /\ pbOut.parts[j].Data = leaves[j].data
               /\ pbOut.parts[j].Headers = leaves[j].headers

C9_DepthCapped ==
    pbPc = "done" =>
        /\ pbOut.depth <= RecursionCap + 1
        /\ Nesting(pbIn.body) > RecursionCap => pbOut.err = Err("recursion limit exceeded")

---------------------------------------------------------------------------
(* split and parseAddressList (message.go 283-347).  A token is the string  *)
(* of its bytes.                                                            *)

Comma == ","

\* bytes.Contains(token, "@") over the tokens of the inputs
TokenContainsAt(tok) == tok \in {"@", "\"d@e\""}

\* line 327/332: bytes.Contains(fc, "@"), fc the bytes of the segment's tokens
ContainsAt(t) == \E j \in DOMAIN t : TokenContainsAt(t[j])

RECURSIVE SplitFrom(_, _, _, _, _)
\* the loop of split from the j-th token on; l is the start of the open piece
SplitFrom(ts, sep, j, l, acc) ==
    IF j > Len(ts)
    THEN IF l # Len(ts) THEN Append(acc, SubSeq(ts, l + 1, Len(ts))) ELSE acc
    ELSE IF ts[j] = sep
    THEN SplitFrom(ts, sep, j + 1, j, Append(acc, SubSeq(ts, l + 1, j - 1)))
    ELSE SplitFrom(ts, sep, j + 1, l, acc)

split(ts, sep) == SplitFrom(ts, sep, 1, 0, <<>>)

RECURSIVE GroupFromNoComma(_, _, _, _)
\* the loop of lines 317-336 without the comma of lines 327-330
GroupFromNoComma(stb, j, lsb, vsb) ==
    IF j > Len(stb) THEN vsb
    ELSE LET t == stb[j]
             lsb1 == lsb \o t
         IN IF ContainsAt(t) \/ j = Len(stb)
            THEN GroupFromNoComma(stb, j + 1, <<>>, Append(vsb, lsb1))
            ELSE GroupFromNoComma(stb, j + 1, lsb1, vsb)

RECURSIVE GroupFrom(_, _, _, _)
\* the loop of lines 317-336 from segment j on: lsb is the open run, vsb the
\* closed runs
GroupFrom(stb, j, lsb, vsb) ==
    IF j > Len(stb) THEN vsb
    ELSE LET t == stb[j]
             lsb1 == lsb \o t
             lsb2 == IF j # Len(stb) /\ ~ContainsAt(t) THEN Append(lsb1, Comma) ELSE lsb1
         IN IF ContainsAt(t) \/ j = Len(stb)
            THEN GroupFrom(stb, j + 1, <<>>, Append(vsb, lsb2))
            ELSE GroupFrom(stb, j + 1, lsb2, vsb)

Specials == {",", "@", "<", ">", ":", ";"}

\* parseAddress(ts): a mailbox needs a local part and a domain around an "@";
\* what precedes them is the display name
parseAddress(ts) ==
    LET ats == { q \in DOMAIN ts : /\ ts[q] = "@" /\ q > 1 /\ q < Len(ts)
                                   /\ ts[q - 1] \notin Specials
                                   /\ ts[q + 1] \notin Specials }
    IN IF ats = {} THEN [ok |-> FALSE, addr |-> <<>>]
       ELSE LET q == CHOOSE x \in ats : \A y \in ats : x <= y
            IN [ok |-> TRUE,
                addr |-> [name |-> SelectSeq(SubSeq(ts, 1, q - 2), LAMBDA x : x # "<"),
                          local |-> ts[q - 1],
                          domain |-> ts[q + 1]]]

RECURSIVE ParseRuns(_, _, _)
\* the loop of lines 338-344: the first run that fails ends the list
ParseRuns(vsb, j, al) ==
    IF j > Len(vsb) THEN [al |-> al, err |-> Nil]
    ELSE LET a == parseAddress(vsb[j])
         IN IF ~a.ok THEN [al |-> al, err |-> Err("address parse error")]
            ELSE ParseRuns(vsb, j + 1, Append(al, a.addr))

\* parseAddressList on the outcome tok = [ok, ts] of tokenize; the runs vsb
\* are returned along with the addresses and the error
parseAddressList(tok) ==
    IF ~tok.ok THEN [al |-> <<>>, err |-> Err("tokenize error"), vsb |-> <<>>]
    ELSE LET stb == split(tok.ts, Comma)
             vsb == GroupFrom(stb, 1, <<>>, <<>>)
             res == ParseRuns(vsb, 1, <<>>)
         IN [al |-> res.al, err |-> res.err, vsb |-> vsb]

\* `"Doe, John" <john@x.com>, jane@y.com` as tokens
DoeJohn ==
    <<"\"Doe, John\"", "<", "john", "@", "x.com", ">", ",", "jane", "@", "y.com">>

Tokens == {"a", "@", ",", "\"d@e\""}

TokenizeOutcomes ==
    { [ok |-> TRUE, ts |-> ts] : ts \in SeqsUpTo(Tokens, MaxTokens) \cup {DoeJohn} }
        \cup { [ok |-> FALSE, ts |-> <<>>] }

InitAddr ==
    /\ IdleMsg /\ IdleBody
    /\ alIn \in TokenizeOutcomes
    /\ alOut = <<>>
    /\ alPc = "call"

ParseAddressListCall ==
    /\ alPc = "call"
    /\ alOut' = parseAddressList(alIn)
    /\ alPc' = "done"
    /\ UNCHANGED <<alIn, msgVars, bodyVars>>

NextAddr == ParseAddressListCall

SpecAddr == InitAddr /\ [][NextAddr]_vars

---------------------------------------------------------------------------
(* Claims about parseAddressList, checked under SpecAddr.                   *)

RECURSIVE JoinWith(_, _)
JoinWith(ss, sep) ==
    IF ss = <<>> THEN <<>>
    ELSE IF Len(ss) = 1 THEN ss[1]
    ELSE ss[1] \o <<sep>> \o JoinWith(Tail(ss), sep)

\* the comma-delimited entries of a token stream: a comma ends an entry, and
\* what follows the last comma is an entry when it is not empty
RECURSIVE Entries(_)
Entries(ts) ==
    IF ts = <<>> THEN <<>>
    ELSE IF \E j \in DOMAIN ts : ts[j] = Comma
    THEN LET c == CHOOSE x \in DOMAIN ts : ts[x] = Comma /\ \A y \in 1..(x - 1) : ts[y] # Comma
         IN <<SubSeq(ts, 1, c - 1)>> \o Entries(SubSeq(ts, c + 1, Len(ts)))
    ELSE <<ts>>

\* the indices of the commas of a run, and of its tokens that contain an "@"
CommasOf(run) == { j \in DOMAIN run : run[j] = Comma }
AtsOf(run)    == { j \in DOMAIN run : TokenContainsAt(run[j]) }

\* C7: the runs of parseAddressList: a run is closed exactly when the segment
\* just added contains an "@" or is the last one, a suppressed comma is put
\* back into the run, and each closed run yields one Address in input order;
\* entries that all contain an "@" yield one Address each, and the Doe, John
\* list yields two.
C7_RunsOfAddressList ==
    (alPc = "done" /\ alIn.ok) =>
        LET ts      == alIn.ts
            entries == Entries(ts)
            runs    == alOut.vsb
            n       == Len(runs)
        IN \* the runs, joined by the commas that split them, are the tokens
           \* (less one trailing comma): every suppressed comma is back
           /\ JoinWith(runs, Comma)
                = IF ts # <<>> /\ ts[Len(ts)] = Comma THEN SubSeq(ts, 1, Len(ts) - 1) ELSE ts
           \* one run per entry with an "@", and one more for a last entry without
           /\ n = Cardinality({ j \in DOMAIN entries : ContainsAt(entries[j]) })
                    + (IF entries # <<>> /\ ~ContainsAt(entries[Len(entries)]) THEN 1 ELSE 0)
           \* no run goes on after an entry with an "@": every "@" of a run
           \* comes after its last comma, and only the last run may have none
           /\ \A j \in 1..n :
                  /\ \A a \in AtsOf(runs[j]) : \A c \in CommasOf(runs[j]) : c < a
                  /\ j < n => AtsOf(runs[j]) # {}
           \* one Address per run, in order, up to the first run that fails
           /\ Len(alOut.al) <= n
           /\ alOut.err = Nil => Len(alOut.al) = n
           /\ \A j \in DOMAIN alOut.al :
                  /\ alOut.al[j].local \in Range(runs[j])
                  /\ alOut.al[j].domain \in Range(runs[j])
           /\ (\A j \in DOMAIN entries : ContainsAt(entries[j])) =>
                  /\ runs = entries
                  /\ alOut.err = Nil => Len(alOut.al) = Len(entries)
           /\ ts = DoeJohn =>
                  /\ alOut.err = Nil /\ Len(alOut.al) = 2
                  /\ alOut.al[1].local = "john" /\ alOut.al[2].local = "jane"

\* C7 witness: a list whose first entry has no "@" was regrouped: a comma was
\* put back, fewer runs than entries, and every run became an Address.
C7_Witness ==
    /\ alPc = "done" /\ alIn.ok
    /\ Len(alOut.vsb) >= 1 /\ alIn.ts[1] # Comma
    /\ Len(alOut.vsb) < Len(Entries(alIn.ts))
    /\ \E j \in DOMAIN alOut.vsb : CommasOf(alOut.vsb[j]) # {}
    /\ alOut.err = Nil /\ Len(alOut.al) = Len(alOut.vsb)

---------------------------------------------------------------------------
(* handleMessage (message.go 69-219).                                       *)

\* strings.ToLower over the header names of the inputs
ToLowerKey(key) ==
    CASE key \in {"From", "FROM"} -> "from"
      [] key = "Subject" -> "subject"
      [] key = "Content-Type" -> "content-type"
      [] key = "Content-Transfer-Encoding" -> "content-transfer-encoding"
      [] OTHER -> "x-mailer"

\* tokenize over the address header values of the inputs: an unterminated
\* quoted string fails
tokenize(value) ==
    CASE value = "a@x.com" -> [ok |-> TRUE, ts |-> <<"a", "@", "x.com">>]
      [] value = "a, b@y.org" -> [ok |-> TRUE, ts |-> <<"a", ",", "b", "@", "y.org">>]
      [] OTHER -> [ok |-> FALSE, ts |-> <<>>]

\* Decode over the encoded-word values of the inputs: a malformed encoded word
\* fails
Decode(value) ==
    CASE value = "=?utf-8?q?hi?=" -> [out |-> "hi", ok |-> TRUE]
      [] value = "=?utf-8?q?=ZZ?=" -> [out |-> "", ok |-> FALSE]
      [] OTHER -> [out |-> value, ok |-> TRUE]

CDAttach == "attachment; filename=\"a.pdf\""
CDNoName == "attachment"
CDInline == "inline"

\* strings.Contains(cd, "attachment")
ContainsAttachment(cd) == cd \in {CDAttach, CDNoName}

\* the submatches of (?msi)name="(.*?)" in a Content-Disposition value
FindName(cd) == IF cd = CDAttach THEN <<"name=\"a.pdf\"", "a.pdf">> ELSE <<>>

Hdr(key, value) == [Key |-> key, Value |-> value]

NilAddress == "nil"

\* the zero Message
ZeroMessage ==
    [ParsedHeaders |-> EmptyHeader, ContentType |-> "", From |-> <<>>,
     Sender |-> NilAddress, Subject |-> "", Text |-> <<>>, Html |-> <<>>,
     Attachments |-> <<>>, Parts |-> <<>>]

\* lines 76-80: the header is added to the parsed headers map
AddParsedHeader(ph, rh) ==
    [key \in DOMAIN ph \cup {rh.Key} |->
        IF key = rh.Key
        THEN (IF key \in DOMAIN ph THEN ph[key] ELSE <<>>) \o <<rh.Value>>
        ELSE ph[key]]

\* lines 85-127: the Message after the dispatch of one header, and the error
\* of its parser
DispatchHeader(m, rh) ==
    LET key == ToLowerKey(rh.Key) IN
    CASE key = "content-type" -> [msg |-> [m EXCEPT !.ContentType = rh.Value], err |-> Nil]
      [] key = "from" ->
            LET res == parseAddressList(tokenize(rh.Value))
            IN [msg |-> [m EXCEPT !.From = res.al],
                err |-> res.err]
      [] key = "subject" ->
            LET d == Decode(rh.Value)
            IN [msg |-> [m EXCEPT !.Subject = d.out],
                err |-> IF d.ok THEN Nil ELSE Err("encoded word error")]
      [] OTHER -> [msg |-> m, err |-> Nil]

\* the header loop with a failed header ending it
NextHeaderAbort(idx, n, err) == IF err # Nil THEN n + 1 ELSE idx + 1

\* line 73 and lines 129-132: the header loop goes on to the next header of
\* the n, whatever the error of this one
NextHeader(idx, n, err) == idx + 1

\* one iteration of the header loop, lines 73-133
HandleHeader ==
    /\ pc = "headers"
    /\ i <= Len(r.RawHeaders)
    /\ LET rh == r.RawHeaders[i]
           m1 == [msg EXCEPT !.ParsedHeaders = AddParsedHeader(msg.ParsedHeaders, rh)]
           d  == DispatchHeader(m1, rh)
       IN /\ msg' = d.msg
          /\ errors' = IF d.err # Nil THEN Append(errors, Wrap("header parser", d.err))
                       ELSE errors
          /\ i' = NextHeader(i, Len(r.RawHeaders), d.err)
    /\ UNCHANGED <<r, pc, parts, k, part, bodyVars, addrVars>>

\* lines 135-149 and 214-216: the Sender default and the call of parseBody
AssembleBody ==
    /\ pc = "headers"
    /\ i > Len(r.RawHeaders)
    /\ LET m1 == IF msg.Sender = NilAddress /\ Len(msg.From) > 0
                 THEN [msg EXCEPT !.Sender = msg.From[1]] ELSE msg
           res == parseBody(m1.ContentType, r.Body, EmptyHeader, 1)
       IN IF m1.ContentType = ""
          THEN /\ msg' = [m1 EXCEPT !.Text = r.Body.data]
               /\ pc' = "done"
               /\ UNCHANGED <<errors, parts, k>>
          ELSE IF res.err # Nil
          THEN /\ msg' = [m1 EXCEPT !.Text = r.Body.data]
               /\ errors' = Append(errors, Wrap("body parser", res.err))
               /\ pc' = "done"
               /\ UNCHANGED <<parts, k>>
          ELSE /\ msg' = m1
               /\ parts' = res.parts
               /\ k' = 1
               /\ pc' = "parts"
               /\ UNCHANGED errors
    /\ UNCHANGED <<r, i, part, bodyVars, addrVars>>

\* one iteration of the part loop, lines 152-209
HandlePart ==
    /\ pc = "parts"
    /\ k <= Len(parts)
    /\ LET p   == parts[k]
           dec == decodeContentTransferEncoding(msg.ParsedHeaders, p.Headers, p.Data)
           errsDec == IF dec.err # Nil THEN <<dec.err>> ELSE <<>>
           u   == UTF8(p.Charset, dec.decoded)
           cd  == p.Headers[CDKey][1]
           filename == FindName(cd)
           dfilename == Decode(filename[2])
       IN CASE ContainsTextPlain(p.Type) ->
                 /\ part' = [p EXCEPT !.Data = dec.decoded]
                 /\ errors' = errors \o errsDec
                 /\ msg' = [msg EXCEPT !.Text = IF u.ok THEN u.data ELSE dec.decoded]
                 /\ parts' = IF u.ok THEN [parts EXCEPT ![k].Data = u.data] ELSE parts
            [] ContainsTextHtml(p.Type) ->
                 /\ part' = [p EXCEPT !.Data = dec.decoded]
                 /\ errors' = errors \o errsDec
                 /\ msg' = [msg EXCEPT !.Html = IF u.ok THEN u.data ELSE dec.decoded]
                 /\ parts' = IF u.ok THEN [parts EXCEPT ![k].Data = u.data] ELSE parts
            [] OTHER ->
                 IF Has(p.Headers, CDKey) /\ ContainsAttachment(cd)
                 THEN IF Len(filename) < 2
                      THEN /\ errors' = Append(errors,
                                 Wrap("body parser", Err("failed get filename from header Content-Disposition")))
                           /\ part' = p
                           /\ UNCHANGED <<msg, parts>>
                      ELSE /\ part' = [p EXCEPT !.Data = dec.decoded]
                           /\ errors' = errors
                                 \o (IF dfilename.ok THEN <<>>
                                     ELSE <<Wrap("body parser", Err("failed decode filename of attachment"))>>)
                                 \o errsDec
                           /\ msg' = [msg EXCEPT !.Attachments =
                                 Append(@, [Filename |-> IF dfilename.ok THEN dfilename.out
                                                         ELSE filename[2],
                                            Data |-> dec.decoded])]
                           /\ UNCHANGED parts
                 ELSE /\ part' = p
                      /\ UNCHANGED <<msg, errors, parts>>
    /\ k' = k + 1
    /\ UNCHANGED <<r, pc, i, bodyVars, addrVars>>

\* lines 211-213, after the part loop: parts[0] of an empty list is an index
\* out of range, and the function does not return
FinishParts ==
    /\ pc = "parts"
    /\ k > Len(parts)
    /\ IF Len(parts) = 0
       THEN /\ pc' = "panic"
            /\ msg' = [msg EXCEPT !.Parts = parts]
       ELSE /\ pc' = "done"
            /\ msg' = [msg EXCEPT !.Parts = parts,
                                  !.ContentType = parts[1].Type,
                                  !.Text = parts[1].Data]
    /\ UNCHANGED <<r, i, errors, parts, k, part, bodyVars, addrVars>>

---------------------------------------------------------------------------
(* The messages given to handleMessage.                                     *)

B64Valid   == <<81, 85, 74, 68>>            \* "QUJD", base64 of "ABC"
B64Invalid == <<81, 85, 74, 68, 33, 33>>    \* "QUJD!!"
QPLatin1   == <<61, 69, 57>>                \* "=E9"

\* the segments of the bodies: text, HTML and attachment leaves with and
\* without a transfer encoding of their own, a segment without Content-Type
\* and a multipart type without boundary
PartLeaves ==
    { Seg(H1(CTKey, PlainU), B64Valid, <<>>, EOF),
      Seg(H2(CTKey, PlainU, CTEKey, "base64"), B64Invalid, <<>>, EOF),
      Seg(H2(CTKey, PlainU, CTEKey, "7bit"), B64Valid, <<>>, EOF),
      Seg(H2(CTKey, PlainNoC, CTEKey, "BASE64"), B64Valid, <<>>, EOF),
      Seg(H2(CTKey, HtmlL1, CTEKey, "quoted-printable"), QPLatin1, <<>>, EOF),
      Seg(H3(CTKey, Pdf, CDKey, CDAttach, CTEKey, "base64"), B64Invalid, <<>>, EOF),
      Seg(H2(CTKey, Pdf, CDKey, CDNoName), B64Valid, <<>>, EOF),
      Seg(H2(CTKey, Pdf, CDKey, CDInline), B64Valid, <<>>, EOF),
      Seg(EmptyHeader, TextABC, <<>>, EOF),
      Seg(H1(CTKey, AltNoBnd), TextABC, <<>>, EOF) }

\* multipart/mixed holding multipart/alternative (text/plain, text/html) and
\* one attachment
NestedExample ==
    Seg(EmptyHeader, RawDelim,
        << Seg(H1(CTKey, AltC), RawDelim,
               << Seg(H1(CTKey, PlainU), TextABC, <<>>, EOF),
                  Seg(H2(CTKey, HtmlL1, CTEKey, "quoted-printable"), QPLatin1, <<>>, EOF) >>,
               EOF),
           Seg(H3(CTKey, Pdf, CDKey, CDAttach, CTEKey, "base64"), B64Valid, <<>>, EOF) >>,
        EOF)

PartBodies ==
    { Seg(EmptyHeader, RawDelim, f, e) :
          f \in ForestsUpTo(MaxParts, PartLeaves), e \in ReaderEnds }
        \cup {NestedExample}

HeaderKinds ==
    { Hdr("From", "a@x.com"), Hdr("FROM", "\"a"),
      Hdr("Subject", "=?utf-8?q?hi?="), Hdr("Subject", "=?utf-8?q?=ZZ?="),
      Hdr("Content-Type", MixedB), Hdr("Content-Type", PlainU),
      Hdr("Content-Type", AltNoBnd),
      Hdr("Content-Transfer-Encoding", "base64"), Hdr("X-Mailer", "x") }

HeaderBodies ==
    { Seg(EmptyHeader, B64Valid, <<>>, EOF),
      Seg(EmptyHeader, RawDelim,
          << Seg(H1(CTKey, PlainU), B64Invalid, <<>>, EOF),
             Seg(H2(CTKey, Pdf, CDKey, CDAttach), B64Valid, <<>>, EOF) >>, NextPartEOF) }

\* the header lists given with each of the HeaderBodies
HeaderLists == SeqsUpTo(HeaderKinds, MaxHeaders)

\* the header lists given with each of the PartBodies: a multipart
\* Content-Type with and without a message-level transfer encoding
PartHeaderLists ==
    { <<Hdr("Content-Type", MixedB)>>,
      <<Hdr("Content-Transfer-Encoding", "base64"), Hdr("Content-Type", MixedB)>> }

Init ==
    /\ IdleBody /\ IdleAddr
    /\ \E rich \in BOOLEAN :
           \E h \in IF rich THEN HeaderLists ELSE PartHeaderLists :
               \E b \in IF rich THEN HeaderBodies ELSE PartBodies :
                   r = [RawHeaders |-> h, Body |-> b]
    /\ pc = "headers"
    /\ i = 1
    /\ msg = ZeroMessage
    /\ errors = <<>>
    /\ parts = <<>>
    /\ k = 0
    /\ part = <<>>

Next == HandleHeader \/ AssembleBody \/ HandlePart \/ FinishParts

Spec == Init /\ [][Next]_vars

---------------------------------------------------------------------------
(* Claims about handleMessage, checked under Spec.                          *)

\* the indices of the first n raw headers whose lower-cased name is lk
HeadersNamed(n, lk) == { j \in 1..n : ToLowerKey(r.RawHeaders[j].Key) = lk }

MaxOf(S) == CHOOSE x \in S : \A y \in S : y <= x

\* the value of the last of the first n raw headers named lk, "" if none
LastValue(n, lk) ==
    IF HeadersNamed(n, lk) = {} THEN ""
    ELSE r.RawHeaders[MaxOf(HeadersNamed(n, lk))].Value

RECURSIVE ValuesOfKey(_, _)
\* the values of the raw headers hs spelled key, in order
ValuesOfKey(hs, key) ==
    IF hs = <<>> THEN <<>>
    ELSE (IF Head(hs).Key = key THEN <<Head(hs).Value>> ELSE <<>>)
             \o ValuesOfKey(Tail(hs), key)

\* the Part list parseBody returns for the message's Content-Type header
OrigParts == parseBody(LastValue(Len(r.RawHeaders), "content-type"), r.Body, EmptyHeader, 1).parts

Base64Failure == Wrap("body parser", Err("failed decode base64"))

\* the part is one whose data handleMessage transfer-decodes
IsDecoded(p) ==
    \/ ContainsTextPlain(p.Type)
    \/ ContainsTextHtml(p.Type)
    \/ /\ Has(p.Headers, CDKey)
       /\ ContainsAttachment(p.Headers[CDKey][1])
       /\ Len(FindName(p.Headers[CDKey][1])) >= 2

\* the encoding name the claim C10 resolves for a part of the message
ResolvedEncoding(p) ==
    IF Has(p.Headers, CTEKey) THEN ToLowerEnc(p.Headers[CTEKey][1])
    ELSE IF Has(msg.ParsedHeaders, CTEKey) THEN ToLowerEnc(msg.ParsedHeaders[CTEKey][1])
    ELSE ""

\* the part loop has just handled part j
JustHandled(j) == pc = "parts" /\ k = j + 1 /\ j >= 1

\* C1: handleMessage returns a Message and an error list whatever the headers
\* and the body: it never aborts, also when parseBody yields no Part.
C1_NeverAborts == pc # "panic"

\* C2: with several parts, the plain-text field of the returned Message is the
\* transfer-decoded, charset-normalized data of the last text/plain part.
C2_LastTextPlainWins ==
    LET plain == { j \in DOMAIN OrigParts : ContainsTextPlain(OrigParts[j].Type) } IN
    (pc = "done" /\ Len(msg.Parts) >= 2 /\ plain # {}) =>
        LET p   == OrigParts[MaxOf(plain)]
            dec == decodeContentTransferEncoding(msg.ParsedHeaders, p.Headers, p.Data)
            u   == UTF8(p.Charset, dec.decoded)
        IN msg.Text = IF u.ok THEN u.data ELSE dec.decoded

\* C3: a part whose resolved encoding is base64 and whose content is not valid
\* base64 is recorded as a non-fatal error, and the data used for it (the
\* loop's part data, the Text or Html value, the Attachment data and the
\* Part's Data) is its raw input.
C3_InvalidBase64KeepsRaw ==
    \A j \in DOMAIN OrigParts :
        LET o == OrigParts[j] IN
        (JustHandled(j) /\ IsDecoded(o) /\ ResolvedEncoding(o) = "base64"
            /\ ~B64DecodeString(o.Data).ok) =>
            /\ Base64Failure \in Range(errors)
            /\ part.Data = o.Data
            /\ parts[j].Data = o.Data
            /\ ContainsTextPlain(o.Type) => msg.Text = o.Data
            /\ (~ContainsTextPlain(o.Type) /\ ContainsTextHtml(o.Type)) => msg.Html = o.Data
            /\ (~ContainsTextPlain(o.Type) /\ ~ContainsTextHtml(o.Type)) =>
                   msg.Attachments[Len(msg.Attachments)].Data = o.Data

\* C8: a header whose parse fails adds exactly one error and does not stop the
\* header loop: every header handled so far is in ParsedHeaders and was
\* dispatched to its field, the header errors are as many as the failed
\* headers, and the body is parsed after the loop.
C8_HeaderFailureIsNotFatal ==
    LET n      == Len(r.RawHeaders)
        seen   == IF pc = "headers" THEN i - 1 ELSE n
        failed == { j \in 1..seen : DispatchHeader(ZeroMessage, r.RawHeaders[j]).err # Nil }
        hdrErr == { j \in DOMAIN errors : errors[j][1] = "header parser" }
    IN /\ seen <= n
       /\ Cardinality(hdrErr) = Cardinality(failed)
       /\ DOMAIN msg.ParsedHeaders = { r.RawHeaders[j].Key : j \in 1..seen }
       /\ \A key \in DOMAIN msg.ParsedHeaders :
              msg.ParsedHeaders[key] = ValuesOfKey(SubSeq(r.RawHeaders, 1, seen), key)
       /\ pc \in {"headers", "parts"} => msg.ContentType = LastValue(seen, "content-type")
       /\ msg.Subject = Decode(LastValue(seen, "subject")).out
       /\ HeadersNamed(seen, "from") # {} =>
              msg.From = parseAddressList(tokenize(LastValue(seen, "from"))).al
       /\ (pc = "headers" /\ i > n) => ENABLED AssembleBody
       /\ (pc = "parts" /\ k = 1) => parts = OrigParts
       /\ (pc = "done" /\ LastValue(n, "content-type") = "") => msg.Text = r.Body.data

\* C8 witness: the first header failed, a later Content-Type header was
\* dispatched all the same, and the body was parsed into parts.
C8_Witness ==
    /\ pc = "parts" /\ k = 1 /\ Len(parts) >= 1
    /\ Len(r.RawHeaders) >= 2
    /\ DispatchHeader(ZeroMessage, r.RawHeaders[1]).err # Nil
    /\ ToLowerKey(r.RawHeaders[Len(r.RawHeaders)].Key) = "content-type"
    /\ Len(errors) = 1

============================================================================
